---- MODULE Spec2Model ----
(***************************************************************************)
(* Matcha + Vocos inference script (matcha_vocos_inference.py).           *)
(*                                                                         *)
(* One invocation of the script is one run: argument parsing and cleaner   *)
(* resolution (__main__), tts() = synthesise() -> to_vocos_waveform() ->   *)
(* save_to_folder().  The file system under the output root outlives the   *)
(* run, so the model lets several runs follow each other on the same disk. *)
(* Python exceptions are never caught in this file: a raise ends the run.  *)
(***************************************************************************)
EXTENDS Integers, Sequences, FiniteSets, TLC

\* ------------------------------------------------------------------ bounds
MaxRuns == 3        \* invocations of the script on the same disk
MaxLen == 2         \* characters of --text_input
MaxNeg == 1         \* speaker ids range from -MaxNeg
MaxSpk == 8         \* ... to MaxSpk (8 is the first id absent from the table)
MaxSamples == 2     \* samples of the decoded waveform

\* --------------------------------------------------------- optional values
None == [some |-> FALSE]
Some(v) == [some |-> TRUE, val |-> v]

\* ------------------------------------------------------- program constants
MULTIACCENT_MODEL == "projecte-aina/matxa-tts-cat-multiaccent"
DEFAULT_CLEANER == "catalan_cleaners"
matxa == "projecte-aina/matxa-tts-cat-multiaccent"
SAMPLE_RATE == 22050
WAV_SUBTYPE == "PCM_24"
BLANK == 0

\* ------------------------------------------------ AccentProfileSelector
speaker_cleaner_mapping ==
    (0 :> "catalan_balear_cleaners") @@ (1 :> "catalan_balear_cleaners") @@
    (2 :> "catalan_cleaners") @@ (3 :> "catalan_cleaners") @@
    (4 :> "catalan_occidental_cleaners") @@ (5 :> "catalan_occidental_cleaners") @@
    (6 :> "catalan_valencia_cleaners") @@ (7 :> "catalan_valencia_cleaners")

\* dict.get(speaker_id, DEFAULT_CLEANER) with a wrong fallback
get_cleaner_no_default(speaker_id) ==
    IF speaker_id \in DOMAIN speaker_cleaner_mapping
    THEN speaker_cleaner_mapping[speaker_id]
    ELSE speaker_cleaner_mapping[0]

get_cleaner_for_speaker_id(speaker_id) ==
    IF speaker_id \in DOMAIN speaker_cleaner_mapping
    THEN speaker_cleaner_mapping[speaker_id]
    ELSE DEFAULT_CLEANER

default_cleaner == IF matxa = MULTIACCENT_MODEL THEN "auto" ELSE DEFAULT_CLEANER

resolve_cleaner(speaker_id, args_cleaner) ==
    IF default_cleaner = "auto" /\ args_cleaner = "auto"
    THEN get_cleaner_for_speaker_id(speaker_id)
    ELSE args_cleaner

\* ------------------------------------------------------------ inputs
SpeakerIds == ((0 - MaxNeg)..MaxSpk) \cup {99}
DiskSpeakerIds == {0 - 1, 1, 99}
RegisteredCleaners ==
    {"catalan_cleaners", "catalan_balear_cleaners",
     "catalan_occidental_cleaners", "catalan_valencia_cleaners"}
CleanerArgs == {"auto", "catalan_balear_cleaners", "catalan_valencia_cleaners", "klingon_cleaners"}
Alphabet == {"a", "b", "?"}
Texts == UNION {[1..n -> Alphabet] : n \in 0..MaxLen}
DiskTexts == {<<"a">>, <<"?">>}
DiskCleanerArgs == {"auto", "klingon_cleaners"}
OutputPaths == {None, Some(<<"out">>)}

\* ------------------------------------------------------------ TextFrontend
\* Symbol table of the text package: the pad symbol has id 0, the same code
\* the script passes to intersperse as the separator.
symbols == <<"_", "a", "b">>
symbol_to_id(ch) == (CHOOSE i \in 1..Len(symbols) : symbols[i] = ch) - 1
id_to_symbol(id) == symbols[id + 1]

\* text_to_sequence(text, [cleaner]): one code per character of the cleaned
\* text; an unregistered cleaner or an unmappable character raises.
text_to_sequence(text, cleaner_name) ==
    IF cleaner_name \notin RegisteredCleaners
    THEN [raised |-> "UnknownProfile", seq |-> <<>>]
    ELSE IF \E i \in 1..Len(text) : \A j \in 1..Len(symbols) : symbols[j] # text[i]
    THEN [raised |-> "EncodingError", seq |-> <<>>]
    ELSE [raised |-> "", seq |-> [i \in 1..Len(text) |-> symbol_to_id(text[i])]]

\* intersperse(lst, item): item between every adjacent pair of lst
intersperse(lst, item) ==
    IF Len(lst) = 0 THEN <<>>
    ELSE [i \in 1..(2 * Len(lst) - 1) |-> IF i % 2 = 1 THEN lst[(i + 1) \div 2] ELSE item]

RECURSIVE sequence_to_text(_)
sequence_to_text(seq) ==
    IF Len(seq) = 0 THEN ""
    ELSE id_to_symbol(Head(seq)) \o sequence_to_text(Tail(seq))

NoText == [raised |-> "", x_orig |-> <<>>, x |-> <<>>, x_lengths |-> 0, x_phones |-> ""]

\* process_text with x_lengths taken from the sequence before interspersion
process_text_raw_length(text, cleaner_name) ==
    LET enc == text_to_sequence(text, cleaner_name)
        x == intersperse(enc.seq, BLANK)
    IN  IF enc.raised # "" THEN [NoText EXCEPT !.raised = enc.raised]
        ELSE [raised |-> "", x_orig |-> text, x |-> x,
              x_lengths |-> Len(enc.seq), x_phones |-> sequence_to_text(x)]

\* process_text with x_phones decoded from the sequence before interspersion
process_text_raw_phones(text, cleaner_name) ==
    LET enc == text_to_sequence(text, cleaner_name)
        x == intersperse(enc.seq, BLANK)
    IN  IF enc.raised # "" THEN [NoText EXCEPT !.raised = enc.raised]
        ELSE [raised |-> "", x_orig |-> text, x |-> x,
              x_lengths |-> Len(x), x_phones |-> sequence_to_text(enc.seq)]

process_text(text, cleaner_name) ==
    LET enc == text_to_sequence(text, cleaner_name)
        x == intersperse(enc.seq, BLANK)
    IN  IF enc.raised # "" THEN [NoText EXCEPT !.raised = enc.raised]
        ELSE [raised |-> "", x_orig |-> text, x |-> x,
              x_lengths |-> Len(x), x_phones |-> sequence_to_text(x)]

\* --------------------------------------------------------------- OutputSink
\* str(int)
Digits == <<"0", "1", "2", "3", "4", "5", "6", "7", "8", "9">>
RECURSIVE str_nat(_)
str_nat(n) == IF n < 10 THEN Digits[n + 1] ELSE str_nat(n \div 10) \o Digits[(n % 10) + 1]
str(i) == IF i < 0 THEN "-" \o str_nat(0 - i) ELSE str_nat(i)

\* Paths are sequences of components.  os.path.join(None, b) raises TypeError.
os_path_join(a, b) ==
    IF a.some THEN [raised |-> "", path |-> a.val \o <<b>>]
    ELSE [raised |-> "TypeError", path |-> <<>>]

speaker_folder(output_path, spk_id) == os_path_join(output_path, "spk_" \o str(spk_id))

\* Path.mkdir(exist_ok, parents=True)
Prefixes(path) == {SubSeq(path, 1, n) : n \in 1..Len(path)}
path_mkdir(ds, folder, exist_ok) ==
    IF folder \in ds
    THEN [raised |-> IF exist_ok THEN "" ELSE "FileExistsError", dirs |-> ds]
    ELSE [raised |-> "", dirs |-> ds \cup Prefixes(folder)]

mkdir_not_exist_ok(ds, folder) == path_mkdir(ds, folder, FALSE)

folder_mkdir(ds, folder) == path_mkdir(ds, folder, TRUE)

\* numpy.save appends ".npy" to a file name that does not end with it
EndsWith(s, suffix) ==
    Len(s) >= Len(suffix) /\ SubSeq(s, Len(s) - Len(suffix) + 1, Len(s)) = suffix

np_save_name_verbatim(filename) == filename

np_save_name(filename) == IF EndsWith(filename, ".npy") THEN filename ELSE filename \o ".npy"

wav_name(filename) == filename \o ".wav"

\* tensor of one id when spk_id > 0
n_spk_positive_only(spk_id) == IF spk_id > 0 THEN Some(<<spk_id>>) ELSE None

n_spk_of(spk_id) == IF spk_id >= 0 THEN Some(<<spk_id>>) ELSE None

\* ------------------------------------------------------------- the pipeline
VARIABLES
    pc,             \* exit, Start, Normalized, AcousticDone, VocoderDone, Persisted, Failed
    args,           \* parsed command line
    cleaner,        \* resolved cleaner name
    n_spk,          \* speaker condition built by tts
    text_processed, \* result of process_text
    model_call,     \* arguments model.synthesise was called with
    output,         \* the output dict: mel, waveform
    calls,          \* calls made by this run, in order
    error,          \* the exception that ended the run
    dirs,           \* directories on disk
    files,          \* files on disk: path -> content
    run,            \* number of the current run
    pre_files       \* files on disk when the current run started

vars == <<pc, args, cleaner, n_spk, text_processed, model_call, output, calls,
          error, dirs, files, run, pre_files>>

NoArgs == [text_input |-> <<>>, speaker_id |-> 0, cleaner |-> "", output_path |-> None]
NoError == [kind |-> "", stage |-> ""]
NoMel == [bins |-> "", run |-> 0]
NoWaveform == [samples |-> 0, run |-> 0]
NoOutput == [mel |-> NoMel, waveform |-> NoWaveform]
NoFiles == [p \in {} |-> NoError]

Init ==
    /\ pc = "exit"
    /\ args = NoArgs
    /\ cleaner = ""
    /\ n_spk = None
    /\ text_processed = NoText
    /\ model_call = None
    /\ output = NoOutput
    /\ calls = <<>>
    /\ error = NoError
    /\ dirs \in {{}, {<<"out">>}}
    /\ files = NoFiles
    /\ run = 0
    /\ pre_files = NoFiles

\* No try/except anywhere in the script: a raise ends the run.
propagate_swallow(raised, here, next) == next

propagate_retry(raised, here, next) == IF raised # "" THEN here ELSE next

propagate(raised, here, next) == IF raised # "" THEN "Failed" ELSE next

Raise(kind, stage) == IF kind # "" THEN [kind |-> kind, stage |-> stage] ELSE NoError

\* __main__ up to the call of tts, and the first lines of tts
Main(T, S, C, max_runs) ==
    /\ pc \in {"exit", "Persisted", "Failed"}
    /\ run < max_runs
    /\ \E text \in T, spk \in S, c \in C, op \in OutputPaths :
        /\ args' = [text_input |-> text, speaker_id |-> spk, cleaner |-> c, output_path |-> op]
        /\ cleaner' = resolve_cleaner(spk, c)
        /\ n_spk' = n_spk_of(spk)
    /\ pc' = "Start"
    /\ run' = run + 1
    /\ pre_files' = files
    /\ text_processed' = NoText
    /\ model_call' = None
    /\ output' = NoOutput
    /\ calls' = <<>>
    /\ error' = NoError
    /\ UNCHANGED <<dirs, files>>

MainOnce == Main(Texts, SpeakerIds, CleanerArgs, 1)

MainAgain == Main(DiskTexts, DiskSpeakerIds, DiskCleanerArgs, MaxRuns)

\* synthesise: text_processed = process_text(text, cleaner)
ProcessText ==
    /\ pc = "Start"
    /\ LET tp == process_text(args.text_input, cleaner)
       IN  /\ text_processed' = tp
           /\ pc' = propagate(tp.raised, "Start", "Normalized")
           /\ error' = Raise(tp.raised, "text_frontend")
    /\ calls' = Append(calls, "process_text")
    /\ UNCHANGED <<args, cleaner, n_spk, model_call, output, dirs, files, run, pre_files>>

\* synthesise: output = model.synthesise(x, x_lengths, ..., spks=spks, ...)
ModelOutcomes == {"vocoder_bins", "other_bins", "InvalidSpeaker", "ModelError"}
ModelSynthesise ==
    /\ pc = "Normalized"
    /\ model_call' = Some([x |-> text_processed.x, x_lengths |-> text_processed.x_lengths,
                           spks |-> n_spk])
    /\ calls' = Append(calls, "model.synthesise")
    /\ \E o \in ModelOutcomes :
        LET raised == IF o \in {"InvalidSpeaker", "ModelError"} THEN o ELSE ""
        IN  /\ output' = IF raised = "" THEN [output EXCEPT !.mel = [bins |-> o, run |-> run]]
                         ELSE output
            /\ pc' = propagate(raised, "Normalized", "AcousticDone")
            /\ error' = Raise(raised, "acoustic")
    /\ UNCHANGED <<args, cleaner, n_spk, text_processed, dirs, files, run, pre_files>>

\* tts: output['waveform'] = to_vocos_waveform(output['mel'], vocos_vocoder)
VocoderDecode ==
    /\ pc = "AcousticDone"
    /\ calls' = Append(calls, "vocoder.decode")
    /\ \E n \in 0..MaxSamples, fails \in BOOLEAN :
        LET raised == IF output.mel.bins # "vocoder_bins" \/ fails THEN "ModelError" ELSE ""
        IN  /\ output' = IF raised = ""
                         THEN [output EXCEPT !.waveform = [samples |-> n, run |-> run]]
                         ELSE output
            /\ pc' = propagate(raised, "AcousticDone", "VocoderDone")
            /\ error' = Raise(raised, "vocoder")
    /\ UNCHANGED <<args, cleaner, n_spk, text_processed, model_call, dirs, files, run, pre_files>>

\* rtf_w = t * 22050 / output['waveform'].shape[-1]; the waveform was squeezed,
\* so one sample leaves a 0-dim tensor and no sample divides by zero.
rtf_w_raises(waveform) ==
    IF waveform.samples = 1 THEN "IndexError"
    ELSE IF waveform.samples = 0 THEN "ZeroDivisionError"
    ELSE ""

Write(fl, path, content) ==
    [p \in (DOMAIN fl) \cup {path} |-> IF p = path THEN content ELSE fl[p]]

IOOutcomes == {"ok", "mkdir_fails", "mel_open_fails", "mel_write_fails",
               "wav_open_fails", "wav_write_fails"}

MelFile(out, r) == [kind |-> "npy", run |-> r, data |-> out.mel]
WavFile(out, r) ==
    [kind |-> "wav", run |-> r, samplerate |-> SAMPLE_RATE, subtype |-> WAV_SUBTYPE,
     data |-> out.waveform]
PartialFile(r) == [kind |-> "partial", run |-> r]
SaveResult(raised, stage, ds, fl) ==
    [raised |-> raised, stage |-> stage, dirs |-> ds, files |-> fl]

\* save_to_folder writing the waveform before the mel
save_to_folder_wav_first(filename, out, folder, ds, fl, io, r) ==
    LET mk == folder_mkdir(ds, folder)
        melp == folder \o <<np_save_name(filename)>>
        wavp == folder \o <<wav_name(filename)>>
        f1 == Write(fl, wavp, WavFile(out, r))
    IN  IF io = "mkdir_fails" THEN SaveResult("IOError", "mkdir", ds, fl)
        ELSE IF mk.raised # "" THEN SaveResult(mk.raised, "mkdir", ds, fl)
        ELSE IF io = "wav_open_fails" THEN SaveResult("IOError", "wav_write", mk.dirs, fl)
        ELSE IF io = "wav_write_fails"
        THEN SaveResult("IOError", "wav_write", mk.dirs, Write(fl, wavp, PartialFile(r)))
        ELSE IF io = "mel_open_fails" THEN SaveResult("IOError", "mel_write", mk.dirs, f1)
        ELSE IF io = "mel_write_fails"
        THEN SaveResult("IOError", "mel_write", mk.dirs, Write(f1, melp, PartialFile(r)))
        ELSE SaveResult("", "", mk.dirs, Write(f1, melp, MelFile(out, r)))

\* save_to_folder(filename, output, folder) on disk (ds, fl); io is what the
\* file system does: a write fails on opening the file (the file is left as it
\* was) or part-way (the file is left incomplete).
save_to_folder(filename, out, folder, ds, fl, io, r) ==
    LET mk == folder_mkdir(ds, folder)
        melp == folder \o <<np_save_name(filename)>>
        wavp == folder \o <<wav_name(filename)>>
        f1 == Write(fl, melp, MelFile(out, r))
    IN  IF io = "mkdir_fails" THEN SaveResult("IOError", "mkdir", ds, fl)
        ELSE IF mk.raised # "" THEN SaveResult(mk.raised, "mkdir", ds, fl)
        ELSE IF io = "mel_open_fails" THEN SaveResult("IOError", "mel_write", mk.dirs, fl)
        ELSE IF io = "mel_write_fails"
        THEN SaveResult("IOError", "mel_write", mk.dirs, Write(fl, melp, PartialFile(r)))
        ELSE IF io = "wav_open_fails" THEN SaveResult("IOError", "wav_write", mk.dirs, f1)
        ELSE IF io = "wav_write_fails"
        THEN SaveResult("IOError", "wav_write", mk.dirs, Write(f1, wavp, PartialFile(r)))
        ELSE SaveResult("", "", mk.dirs, Write(f1, wavp, WavFile(out, r)))

\* tts after the vocoder: real-time factor, then
\* save_to_folder("synth", output, os.path.join(output_path, "spk_" + str(spk_id)))
Persist ==
    /\ pc = "VocoderDone"
    /\ \E io \in IOOutcomes :
        LET m == rtf_w_raises(output.waveform)
            fo == speaker_folder(args.output_path, args.speaker_id)
            sv == save_to_folder("synth", output, fo.path, dirs, files, io, run)
            res == IF m # "" THEN SaveResult(m, "metrics", dirs, files)
                   ELSE IF fo.raised # "" THEN SaveResult(fo.raised, "path", dirs, files)
                   ELSE sv
        IN  /\ calls' = IF m = "" /\ fo.raised = "" THEN Append(calls, "save_to_folder")
                        ELSE calls
            /\ dirs' = res.dirs
            /\ files' = res.files
            /\ pc' = propagate(res.raised, "VocoderDone", "Persisted")
            /\ error' = Raise(res.raised, res.stage)
    /\ UNCHANGED <<args, cleaner, n_spk, text_processed, model_call, output, run, pre_files>>

Next == MainOnce \/ ProcessText \/ ModelSynthesise \/ VocoderDecode \/ Persist

Spec == Init /\ [][Next]_vars

NextDisk == MainAgain \/ ProcessText \/ ModelSynthesise \/ VocoderDecode \/ Persist

SpecDisk == Init /\ [][NextDisk]_vars

\* ================================================================== claims
Started == pc # "exit"
Called(fn) == \E i \in 1..Len(calls) : calls[i] = fn
RawCodes == text_to_sequence(args.text_input, cleaner).seq
Folder == <<"out", "spk_" \o str(args.speaker_id)>>
InFolder(p) == Len(p) = 3 /\ SubSeq(p, 1, 2) = Folder
WrittenByRun == {p \in DOMAIN files : files[p].run = run}

\* C1: with "auto", speaker ids 0,1 resolve to the Balearic cleaner, 2,3 to the
\* Central one, 4,5 to the Occidental one, 6,7 to the Valencian one and every
\* other id (99, negative ids) to catalan_cleaners; a requested cleaner other
\* than "auto" is used unchanged whatever the speaker id.
C1_ProfileResolution ==
    Started =>
        /\ (args.cleaner = "auto" /\ args.speaker_id \in {0, 1}
                => cleaner = "catalan_balear_cleaners")
        /\ (args.cleaner = "auto" /\ args.speaker_id \in {2, 3}
                => cleaner = "catalan_cleaners")
        /\ (args.cleaner = "auto" /\ args.speaker_id \in {4, 5}
                => cleaner = "catalan_occidental_cleaners")
        /\ (args.cleaner = "auto" /\ args.speaker_id \in {6, 7}
                => cleaner = "catalan_valencia_cleaners")
        /\ (args.cleaner = "auto" /\ args.speaker_id \notin 0..7
                => cleaner = "catalan_cleaners")
        /\ (args.cleaner # "auto" => cleaner = args.cleaner)

C1_Witness ==
    /\ Started
    /\ args.cleaner = "auto"
    /\ args.speaker_id = 99
    /\ cleaner = "catalan_cleaners"

\* C2: a run whose requested cleaner is the unregistered "klingon_cleaners"
\* fails with UnknownProfile in the text frontend; neither model.synthesise nor
\* vocoder.decode is ever called in it and nothing is written.
C2_UnknownProfileBeforeModels ==
    (Started /\ args.cleaner = "klingon_cleaners") =>
        /\ pc \in {"Start", "Failed"}
        /\ (pc = "Failed" => error = [kind |-> "UnknownProfile", stage |-> "text_frontend"])
        /\ ~Called("model.synthesise")
        /\ ~Called("vocoder.decode")
        /\ ~Called("save_to_folder")
        /\ model_call = None
        /\ files = pre_files

C2_Witness ==
    /\ args.cleaner = "klingon_cleaners"
    /\ pc = "Failed"
    /\ error.kind = "UnknownProfile"
    /\ calls = <<"process_text">>

StageOrder == <<"process_text", "model.synthesise", "vocoder.decode", "save_to_folder">>
StageEdges ==
    {<<"exit", "Start">>, <<"Start", "Normalized">>, <<"Normalized", "AcousticDone">>,
     <<"AcousticDone", "VocoderDone">>, <<"VocoderDone", "Persisted">>,
     <<"Start", "Failed">>, <<"Normalized", "Failed">>, <<"AcousticDone", "Failed">>,
     <<"VocoderDone", "Failed">>}
StageShape ==
    /\ Len(calls) <= Len(StageOrder)
    /\ calls = SubSeq(StageOrder, 1, Len(calls))
    /\ (pc = "Start" => Len(calls) = 0)
    /\ (pc = "Normalized" => Len(calls) = 1)
    /\ (pc = "AcousticDone" => Len(calls) = 2)
    /\ (pc = "VocoderDone" => Len(calls) = 3)
    /\ (pc = "Persisted" => Len(calls) = 4 /\ error = NoError)
    /\ (pc = "Failed" => error.kind # "")
\* C4: a run goes Start -> Normalized -> AcousticDone -> VocoderDone ->
\* Persisted; process_text, model.synthesise, vocoder.decode and save_to_folder
\* are called in that order, each at most once; a failure at any stage ends
\* the run and no later stage is entered.
C4_LinearStages ==
    [][/\ StageShape'
       /\ (pc' # pc => <<pc, pc'>> \in StageEdges)
       /\ (pc \in {"Failed", "Persisted"} => calls' = calls /\ files' = files)]_vars

C4_Witness ==
    /\ pc = "Persisted"
    /\ calls = StageOrder

\* C5: the sequence handed to the acoustic model for N >= 1 cleaned codes has
\* length 2N-1, holds the separator code 0 at every even position (positions
\* counted from 1: the 2nd, 4th, ... element), and x_lengths is its length.
C5_Interspersion ==
    (model_call.some /\ Len(RawCodes) >= 1) =>
        LET x == model_call.val.x
        IN  /\ Len(x) = 2 * Len(RawCodes) - 1
            /\ \A i \in 1..Len(x) : i % 2 = 0 => x[i] = 0
            /\ model_call.val.x_lengths = Len(x)

C5_Witness ==
    /\ model_call.some
    /\ Len(RawCodes) = 2
    /\ model_call.val.x = <<1, 0, 2>>
    /\ model_call.val.x_lengths = 3

\* C6 as claimed: after a successful run into an empty output root the files
\* are exactly spk_<id>/synth and spk_<id>/synth.wav.
C6_TwoFilesNamedAsGiven ==
    (pc = "Persisted" /\ pre_files = NoFiles) =>
        DOMAIN files = {Folder \o <<"synth">>, Folder \o <<"synth.wav">>}

\* C6 amended: after a successful run into an empty output root the files are
\* exactly spk_<id>/synth.npy (the mel array) and spk_<id>/synth.wav, the
\* latter written with sample rate 22050; no other file exists.
C6_TwoFiles ==
    (pc = "Persisted" /\ pre_files = NoFiles) =>
        /\ DOMAIN files = {Folder \o <<"synth.npy">>, Folder \o <<"synth.wav">>}
        /\ files[Folder \o <<"synth.npy">>].kind = "npy"
        /\ files[Folder \o <<"synth.npy">>].data = output.mel
        /\ files[Folder \o <<"synth.wav">>].kind = "wav"
        /\ files[Folder \o <<"synth.wav">>].samplerate = 22050
        /\ files[Folder \o <<"synth.wav">>].data = output.waveform

C6_Witness ==
    /\ pc = "Persisted"
    /\ pre_files = NoFiles
    /\ Cardinality(DOMAIN files) = 2

\* C7: over successful runs saving never fails because the directory or the
\* files exist, spk_<id>/ holds the same two file names after every run, their
\* contents are those of the latest run, and a run leaves the files of every
\* other speaker directory as they were.
C7_IdempotentPersistence ==
    /\ (pc = "Failed" => error.kind # "FileExistsError")
    /\ pc = "Persisted" =>
            /\ {p \in DOMAIN files : InFolder(p)}
                    = {Folder \o <<"synth.npy">>, Folder \o <<"synth.wav">>}
            /\ \A p \in DOMAIN files : InFolder(p) => files[p].run = run
            /\ files[Folder \o <<"synth.npy">>].data = output.mel
            /\ files[Folder \o <<"synth.wav">>].data = output.waveform
    /\ Started =>
            /\ \A p \in DOMAIN pre_files :
                    ~InFolder(p) => p \in DOMAIN files /\ files[p] = pre_files[p]
            /\ \A p \in DOMAIN files : ~InFolder(p) => p \in DOMAIN pre_files

C7_Witness ==
    /\ pc = "Persisted"
    /\ run >= 2
    /\ \E p \in DOMAIN pre_files : InFolder(p) /\ pre_files[p].kind = "wav"
    /\ \E p \in DOMAIN pre_files : ~InFolder(p)

\* C8 as claimed: a mel with a mismatching bin count never reaches
\* vocoder.decode; the orchestration raises ModelError first.
C8_ValidatedBeforeVocoder ==
    output.mel.bins = "other_bins" =>
        /\ ~Called("vocoder.decode")
        /\ (pc = "Failed" => error = [kind |-> "ModelError", stage |-> "orchestration"])

\* C8 amended: tts hands the mel to vocoder.decode without looking at its
\* shape; with a mismatching bin count vocoder.decode is called, the
\* ModelError is the vocoder's own, the run fails and nothing is written.
C8_MismatchFailsInVocoder ==
    (output.mel.bins = "other_bins" /\ pc # "AcousticDone") =>
        /\ Called("vocoder.decode")
        /\ pc = "Failed"
        /\ error = [kind |-> "ModelError", stage |-> "vocoder"]
        /\ ~Called("save_to_folder")
        /\ files = pre_files

C8_Witness ==
    /\ output.mel.bins = "other_bins"
    /\ pc = "Failed"
    /\ Called("vocoder.decode")

\* C9 as claimed: x_phones is the decoding of the codes before interspersion,
\* one symbol per raw code.
C9_PhonesOfRawCodes ==
    (Called("process_text") /\ text_processed.raised = "") =>
        /\ text_processed.x_phones = sequence_to_text(RawCodes)
        /\ Len(text_processed.x_phones) = Len(RawCodes)

\* C9 amended: x_phones is the decoding of the interspersed sequence x: one
\* symbol per code of x, the pad symbol "_" standing for each separator code.
C9_PhonesOfInterspersed ==
    (Called("process_text") /\ text_processed.raised = "") =>
        /\ Len(text_processed.x_phones) = Len(text_processed.x)
        /\ \A i \in 1..Len(text_processed.x) :
                SubSeq(text_processed.x_phones, i, i) = symbols[text_processed.x[i] + 1]
        /\ \A i \in 1..Len(text_processed.x) :
                i % 2 = 0 => SubSeq(text_processed.x_phones, i, i) = "_"

C9_Witness ==
    /\ Called("process_text")
    /\ args.text_input = <<"a", "b">>
    /\ text_processed.x_phones = "a_b"

\* C10: model.synthesise gets the one-element tensor [spk_id] as spks when
\* spk_id >= 0 and None when spk_id < 0; either way the files go under
\* spk_<spk_id> spelled from the integer as given (spk_-1 for -1); "auto" with
\* a negative id resolves to catalan_cleaners.
C10_SpeakerHandling ==
    /\ model_call.some =>
            model_call.val.spks =
                IF args.speaker_id >= 0 THEN Some(<<args.speaker_id>>) ELSE None
    /\ pc = "Persisted" =>
            /\ DOMAIN files # {}
            /\ \A p \in DOMAIN files : p[1] = "out" /\ p[2] = "spk_" \o str(args.speaker_id)
            /\ (args.speaker_id = 0 - 1 => \A p \in DOMAIN files : p[2] = "spk_-1")
            /\ (args.speaker_id = 99 => \A p \in DOMAIN files : p[2] = "spk_99")
    /\ (Started /\ args.cleaner = "auto" /\ args.speaker_id < 0)
            => cleaner = "catalan_cleaners"

C10_Witness ==
    /\ pc = "Persisted"
    /\ args.speaker_id = 0 - 1
    /\ args.cleaner = "auto"
    /\ model_call.val.spks = None
    /\ <<"out", "spk_-1", "synth.wav">> \in DOMAIN files

====
